---- MODULE Spec2Model ----
(* Model of the Earning Backend API (src/main.py): the in-memory credit     *)
(* ledger user_credits, the credit endpoint receive_earnings, the claim     *)
(* endpoint claim_earnings and the chain the treasury transfers go to.      *)
(* Amounts are integers in units of 0.1 micro-ETH (1e-7 ETH), one digit     *)
(* finer than the six decimals the error messages print: 0.6 ETH is         *)
(* Milli(600) and the safety margin 0.002 ETH is 20000.                     *)
EXTENDS Integers, Sequences, FiniteSets, TLC

VARIABLES user_credits, web3_ready, reqs, chain

vars == <<user_credits, web3_ready, reqs, chain>>

(* ------------------------------ bounds --------------------------------- *)
MaxReqs == 3

(* --------------------------- wallet strings ---------------------------- *)
(* A wallet string is <<entity, casing, padded>>: the letters of the        *)
(* address, how they are cased, and whether the string carries surrounding  *)
(* whitespace.  "lc" all lower case, "uc" upper-case hex digits, "ck" the   *)
(* EIP-55 checksum casing, "bad" a mixed casing that is not the checksum.   *)
Ent == {"A", "B"}

NotConnected == <<"not_connected", "lc", FALSE>>

(* n milli-ETH. *)
Milli(n) == n * 10000

Junk == <<"junk", "lc", FALSE>>

(* The request bodies that are tried: <<userWallet, amountETH>>. *)
CreditInputs ==
  {<<<<"A", "ck", FALSE>>, Milli(1000)>>, <<<<"A", "lc", FALSE>>, Milli(1000)>>,
   <<<<"B", "ck", FALSE>>, Milli(1000)>>, <<NotConnected, Milli(1000)>>,
   <<Junk, Milli(1000)>>}

ClaimInputs ==
  {<<<<"A", "uc", TRUE>>, Milli(400)>>, <<<<"A", "ck", FALSE>>, Milli(600)>>,
   <<<<"A", "ck", FALSE>>, 0>>, <<<<"A", "bad", FALSE>>, Milli(600)>>,
   <<<<"B", "lc", FALSE>>, 4>>}

(* The wallet_address path parameters that are tried. *)
QueryInputs == {<<"A", "uc", TRUE>>}

SAFETY_MARGIN == 20000

(* Treasury balances the chain may report to a claim of amt: one unit less  *)
(* than amt plus the margin, and exactly amt plus the margin.               *)
Liquidity(amt) == {amt + SAFETY_MARGIN - 1, amt + SAFETY_MARGIN}

Lower(w) == <<w[1], "lc", w[3]>>
Strip(w) == <<w[1], w[2], FALSE>>
IsAddress(w) == w[1] \in Ent /\ w[2] \in {"lc", "uc", "ck"} /\ w[3] = FALSE
ToChecksumAddress(w) == <<w[1], "ck", w[3]>>

(* addr.startswith('0x') and len(addr) == 42 *)
WellFormed(w) == w[1] \in Ent /\ w[3] = FALSE

(* "{:.6f}": the amount as printed, in micro-ETH. *)
Fmt6(x) == (x + 5) \div 10

(* ------------------------------ ledger --------------------------------- *)
(* user_credits is a dict; it is modelled in insertion order as a sequence  *)
(* of [key, val].  FindKey is the scan "for key in user_credits: if         *)
(* key.lower() == wallet_lower: ...; break": the first matching position,   *)
(* 0 for None.                                                              *)
(* Mutant: the scan compares the key itself, not key.lower(). *)
MatchesExact(uc, wl) == {i \in 1..Len(uc) : uc[i].key = wl}

Matches(uc, wl) == {i \in 1..Len(uc) : Lower(uc[i].key) = wl}

Min(S) == CHOOSE x \in S : \A y \in S : x <= y

FindKey(uc, wl) == IF Matches(uc, wl) = {} THEN 0 ELSE Min(Matches(uc, wl))

CreditsOf(uc, wl) == IF FindKey(uc, wl) = 0 THEN 0 ELSE uc[FindKey(uc, wl)].val

ExactGet(uc, w) ==
  IF \E i \in 1..Len(uc) : uc[i].key = w
  THEN uc[CHOOSE i \in 1..Len(uc) : uc[i].key = w].val
  ELSE 0

(* Mutant: the credit overwrites the entry instead of adding to it. *)
AddCreditsOverwrite(uc, w, amt) ==
  IF FindKey(uc, Lower(w)) # 0
  THEN [uc EXCEPT ![FindKey(uc, Lower(w))].val = amt]
  ELSE Append(uc, [key |-> w, val |-> amt])

(* Mutant: the entry is re-keyed with the casing of the latest credit. *)
AddCreditsRekey(uc, w, amt) ==
  IF FindKey(uc, Lower(w)) # 0
  THEN [uc EXCEPT ![FindKey(uc, Lower(w))] = [key |-> w, val |-> @.val + amt]]
  ELSE Append(uc, [key |-> w, val |-> amt])

AddCredits(uc, w, amt) ==
  IF FindKey(uc, Lower(w)) # 0
  THEN [uc EXCEPT ![FindKey(uc, Lower(w))].val = @ + amt]
  ELSE Append(uc, [key |-> w, val |-> amt])

(* Mutant: a confirmed claim takes the whole balance. *)
DeductCreditsAll(uc, k, amt) ==
  IF k # 0 THEN [uc EXCEPT ![k].val = 0] ELSE uc

DeductCredits(uc, k, amt) ==
  IF k # 0 THEN [uc EXCEPT ![k].val = @ - amt] ELSE uc

(* ------------------------------ requests ------------------------------- *)
(* One record per HTTP request.  pc is the handler's position; key, credits *)
(* and tx are the handler's locals existing_key, credits and tx_hash; pre   *)
(* and post record the entity's ledger balance when the handler starts and  *)
(* when it returns, ret the balance field of the response, cause the        *)
(* exception behind a generic 500, liq the treasury balance the chain       *)
(* reported, receipt the result of waiting for the receipt, conc whether    *)
(* the request is a claim that arrived while the request before it, a claim *)
(* for the same identity, was unanswered, shown the <<need, have>> printed  *)
(* in the "Need ..., have ..." message, can the can_claim field of a        *)
(* credits query, and led0 and led1 the ledger when the handler starts and  *)
(* when it returns.                                                         *)
NewReq(kind, w, amt, conc) ==
  [kind |-> kind, w |-> w, amt |-> amt, conc |-> conc, pc |-> "queued",
   out |-> "none", cause |-> "none", key |-> 0, credits |-> 0, pre |-> 0,
   post |-> 0, tx |-> 0, liq |-> 0, receipt |-> "none", ret |-> 0,
   shown |-> <<>>, can |-> FALSE, led0 |-> <<>>, led1 |-> <<>>]

Finish(q, out, cause, uc) ==
  [q EXCEPT !.pc = "done", !.out = out, !.cause = cause,
            !.post = CreditsOf(uc, Lower(Strip(q.w))), !.led1 = uc]

(* Mutant: the handlers await the chain, so the loop enters a handler while *)
(* earlier ones are suspended.                                              *)
CanEnterAwait(r) ==
  /\ reqs[r].pc = "queued"
  /\ \A i \in 1..(r - 1) : reqs[i].pc # "queued"

(* The handlers are "async def" and contain no await: once the event loop   *)
(* has entered a handler it runs it to its return or raise before it        *)
(* enters another one.  reqs lists the requests in the order in which the   *)
(* loop enters their handlers.                                              *)
CanEnter(r) ==
  /\ reqs[r].pc = "queued"
  /\ \A i \in 1..(r - 1) : reqs[i].pc = "done"

(* Mutant: the liquidity check forgets the safety margin. *)
LiquidityLowNoMargin(treasury_balance, amt) == treasury_balance < amt

LiquidityLow(treasury_balance, amt) == treasury_balance < amt + SAFETY_MARGIN

(* Mutant: any receipt counts as success. *)
ReceiptOkAny(status) == status \in {0, 1}

ReceiptOk(status) == status = 1

Init ==
  /\ user_credits = <<>>
  /\ web3_ready \in BOOLEAN
  /\ reqs = <<>>
  /\ chain = <<>>

(* The request r would arrive while the request before it, a claim for the  *)
(* same identity, is unanswered.                                            *)
OverlapsClaim(kind, w) ==
  /\ kind = "claim" /\ Len(reqs) > 0
  /\ reqs[Len(reqs)].kind = "claim"
  /\ reqs[Len(reqs)].pc # "done"
  /\ reqs[Len(reqs)].w[1] = w[1]

(* A request reaches the server.  When a request arrives has no effect on   *)
(* what its handler does, so the arrivals tried are: after every earlier    *)
(* request was answered, or as a claim overlapping the claim before it.     *)
Submit(kind, w, amt) ==
  /\ Len(reqs) < MaxReqs
  /\ \/ \A i \in 1..Len(reqs) : reqs[i].pc = "done"
     \/ OverlapsClaim(kind, w)
  /\ reqs' = Append(reqs, NewReq(kind, w, amt, OverlapsClaim(kind, w)))
  /\ UNCHANGED <<user_credits, web3_ready, chain>>

(* POST /api/treasury/receive, lines 113-155. *)
receive_earnings(r) ==
  /\ CanEnter(r)
  /\ reqs[r].kind = "credit"
  /\ LET q == [reqs[r] EXCEPT !.led0 = user_credits] IN
     IF q.amt <= 0
     THEN /\ reqs' = [reqs EXCEPT ![r] = Finish(q, "400_amount", "none", user_credits)]
          /\ UNCHANGED user_credits
     ELSE /\ user_credits' = IF q.w # NotConnected
                             THEN AddCredits(user_credits, q.w, q.amt)
                             ELSE user_credits
          /\ reqs' = [reqs EXCEPT ![r] =
                        [Finish(q, "200", "none", user_credits') EXCEPT
                           !.pre = CreditsOf(user_credits, Lower(q.w)),
                           !.ret = ExactGet(user_credits', q.w)]]
  /\ UNCHANGED <<web3_ready, chain>>

(* POST /api/claim/earnings, lines 169-192: readiness, address validation,  *)
(* ledger lookup and the balance check.                                     *)
claim_check(r) ==
  /\ CanEnter(r)
  /\ reqs[r].kind = "claim"
  /\ LET q == [reqs[r] EXCEPT !.led0 = user_credits]
         user_addr == Strip(q.w)
         wallet_lower == Lower(ToChecksumAddress(user_addr))
         existing_key == FindKey(user_credits, wallet_lower)
         credits == CreditsOf(user_credits, wallet_lower)
     IN  reqs' = [reqs EXCEPT ![r] =
           IF ~web3_ready
             THEN Finish(q, "503_not_initialized", "none", user_credits)
           ELSE IF ~IsAddress(user_addr)
             THEN Finish(q, "400_invalid_address", "none", user_credits)
           ELSE IF credits < q.amt
             THEN [Finish(q, "400_need", "none", user_credits) EXCEPT
                     !.pre = credits, !.credits = credits, !.key = existing_key,
                     !.shown = <<Fmt6(q.amt), Fmt6(credits)>>]
           ELSE [q EXCEPT !.pc = "liquidity", !.pre = credits,
                          !.credits = credits, !.key = existing_key]]
  /\ UNCHANGED <<user_credits, web3_ready, chain>>

(* Lines 196-200: the treasury balance read from the chain (the read may    *)
(* raise) and the liquidity check.                                          *)
claim_liquidity(r) ==
  /\ reqs[r].pc = "liquidity"
  /\ \E reply \in Liquidity(reqs[r].amt) \cup {-1} :
       LET q == reqs[r] IN
       reqs' = [reqs EXCEPT ![r] =
         IF reply = -1
           THEN Finish(q, "500_exception", "get_balance", user_credits)
         ELSE IF LiquidityLow(reply, q.amt)
           THEN [Finish(q, "400_treasury_low", "none", user_credits) EXCEPT !.liq = reply]
         ELSE [q EXCEPT !.pc = "send", !.liq = reply]]
  /\ UNCHANGED <<user_credits, web3_ready, chain>>

(* Mutant: the credits are deducted before the transfer is signed and are   *)
(* not given back when signing or sending raises.                           *)
claim_send_deduct_first(r) ==
  /\ reqs[r].pc = "send"
  /\ user_credits' = DeductCredits(user_credits, reqs[r].key, reqs[r].amt)
  /\ \E sent \in BOOLEAN :
       LET q == reqs[r] IN
       IF sent
       THEN /\ chain' = Append(chain, [to |-> ToChecksumAddress(Strip(q.w)),
                                       amt |-> q.amt, st |-> "pending", by |-> r])
            /\ reqs' = [reqs EXCEPT ![r] = [q EXCEPT !.pc = "wait", !.tx = Len(chain) + 1]]
       ELSE /\ reqs' = [reqs EXCEPT ![r] = Finish(q, "500_exception", "broadcast", user_credits')]
            /\ UNCHANGED chain
  /\ UNCHANGED web3_ready

(* Lines 202-216: build, sign and broadcast the transfer; any of these may  *)
(* raise, and then nothing was broadcast.  to_wei raises for a negative     *)
(* amount; for 0 it returns 0 and the transfer is built as for any amount.  *)
claim_send(r) ==
  /\ reqs[r].pc = "send"
  /\ \E sent \in BOOLEAN :
       LET q == reqs[r] IN
       IF sent /\ q.amt >= 0
       THEN /\ chain' = Append(chain, [to |-> ToChecksumAddress(Strip(q.w)),
                                       amt |-> q.amt, st |-> "pending", by |-> r])
            /\ reqs' = [reqs EXCEPT ![r] = [q EXCEPT !.pc = "wait", !.tx = Len(chain) + 1]]
       ELSE /\ reqs' = [reqs EXCEPT ![r] = Finish(q, "500_exception", "broadcast", user_credits)]
            /\ UNCHANGED chain
  /\ UNCHANGED <<user_credits, web3_ready>>

(* Lines 218-251: wait for the receipt (status 1, status 0, or the wait     *)
(* raises after 120 s with the transfer still pending), deduct on success.  *)
claim_wait(r) ==
  /\ reqs[r].pc = "wait"
  /\ \E rc \in {1, 0, -1} :
       LET q == [reqs[r] EXCEPT !.receipt = IF rc = 1 THEN "status1"
                                           ELSE IF rc = 0 THEN "status0"
                                           ELSE "timeout"]
       IN
       IF rc = -1
       THEN /\ reqs' = [reqs EXCEPT ![r] = Finish(q, "500_exception", "timeout", user_credits)]
            /\ UNCHANGED <<user_credits, chain>>
       ELSE /\ chain' = [chain EXCEPT ![q.tx].st = IF rc = 1 THEN "mined" ELSE "failed"]
            /\ IF ReceiptOk(rc)
               THEN /\ user_credits' = DeductCredits(user_credits, q.key, q.amt)
                    /\ reqs' = [reqs EXCEPT ![r] =
                         [Finish(q, "200", "none", user_credits') EXCEPT
                            !.ret = IF q.key # 0 THEN user_credits'[q.key].val ELSE 0]]
               ELSE /\ reqs' = [reqs EXCEPT ![r] =
                                  Finish(q, "500_tx_reverted", "none", user_credits)]
                    /\ UNCHANGED user_credits
  /\ UNCHANGED web3_ready

(* Mutant: an entity without credits cannot be told from one that has. *)
CanClaimAlways(credits) == credits >= 0

CanClaim(credits) == credits > 0

(* GET /api/user/credits/{wallet_address}, lines 259-282.  Nothing in it    *)
(* touches web3.                                                            *)
get_user_credits(r) ==
  /\ CanEnter(r)
  /\ reqs[r].kind = "query"
  /\ LET q == [reqs[r] EXCEPT !.led0 = user_credits]
         addr == Strip(q.w)
         credits == CreditsOf(user_credits, Lower(addr))
     IN  reqs' = [reqs EXCEPT ![r] =
           IF ~WellFormed(addr)
             THEN Finish(q, "400_invalid_format", "none", user_credits)
           ELSE [Finish(q, "200", "none", user_credits) EXCEPT
                   !.pre = credits, !.ret = credits, !.can = CanClaim(credits)]]
  /\ UNCHANGED <<user_credits, web3_ready, chain>>

(* The chain: a transfer whose receipt the handler stopped waiting for is   *)
(* still pending; it is mined later, or stays pending for good.             *)
ChainSettle(i) ==
  /\ chain[i].st = "pending"
  /\ reqs[chain[i].by].pc = "done"
  /\ chain' = [chain EXCEPT ![i].st = "mined"]
  /\ UNCHANGED <<user_credits, web3_ready, reqs>>

Next ==
  \/ \E b \in CreditInputs : Submit("credit", b[1], b[2])
  \/ \E b \in ClaimInputs : Submit("claim", b[1], b[2])
  \/ \E w \in QueryInputs : Submit("query", w, 0)
  \/ \E r \in 1..Len(reqs) : receive_earnings(r)
  \/ \E r \in 1..Len(reqs) : claim_check(r)
  \/ \E r \in 1..Len(reqs) : claim_liquidity(r)
  \/ \E r \in 1..Len(reqs) : claim_send(r)
  \/ \E r \in 1..Len(reqs) : claim_wait(r)
  \/ \E r \in 1..Len(reqs) : get_user_credits(r)
  \/ \E i \in 1..Len(chain) : ChainSettle(i)

Spec == Init /\ [][Next]_vars

(* ------------------------- auxiliary definitions ----------------------- *)
Reqs == 1..Len(reqs)
Claims == {r \in Reqs : reqs[r].kind = "claim"}
Credits == {r \in Reqs : reqs[r].kind = "credit"}
IsDone(r) == reqs[r].pc = "done"
AllDone == \A r \in Reqs : IsDone(r)

(* The entity a request names. *)
EntityOf(r) == reqs[r].w[1]

(* The ledger balance of entity e. *)
Balance(e) == CreditsOf(user_credits, <<e, "lc", FALSE>>)

(* The claim broadcast a transfer. *)
Broadcast(r) == reqs[r].tx # 0

RECURSIVE SumCredited(_, _)
SumCredited(e, n) ==
  IF n = 0 THEN 0
  ELSE SumCredited(e, n - 1) +
       (IF reqs[n].kind = "credit" /\ reqs[n].out = "200" /\ EntityOf(n) = e
        THEN reqs[n].amt ELSE 0)

RECURSIVE SumDebited(_, _)
SumDebited(e, n) ==
  IF n = 0 THEN 0
  ELSE SumDebited(e, n - 1) +
       (IF reqs[n].kind = "claim" /\ reqs[n].out = "200" /\ EntityOf(n) = e
        THEN reqs[n].amt ELSE 0)

(* r2 is the claim after the claim r1, names the same entity, and arrived   *)
(* while r1 was unanswered.                                                 *)
Concurrent(r1, r2) ==
  /\ r2 = r1 + 1
  /\ EntityOf(r1) = EntityOf(r2)
  /\ reqs[r2].conc

(* ------------------------------- claims -------------------------------- *)

(* C1: two claims on one identity that are in flight together, each within  *)
(* the balance but together above it, never both have their transfer        *)
(* broadcast and succeed on chain.                                          *)
C1_NoDoubleSpend ==
  \A r1, r2 \in Claims :
    ( /\ Concurrent(r1, r2)
      /\ IsDone(r1) /\ IsDone(r2)
      /\ reqs[r1].amt <= reqs[r1].pre /\ reqs[r2].amt <= reqs[r1].pre
      /\ reqs[r1].amt + reqs[r2].amt > reqs[r1].pre )
    => ~( /\ Broadcast(r1) /\ chain[reqs[r1].tx].st = "mined"
          /\ Broadcast(r2) /\ chain[reqs[r2].tx].st = "mined" )

(* C2: every balance stored in the ledger is >= 0. *)
C2_BalanceNonNegative ==
  \A i \in 1..Len(user_credits) : user_credits[i].val >= 0

C2_Witness ==
  /\ \E i \in 1..Len(user_credits) : user_credits[i].val = 0
  /\ Cardinality({r \in Claims : reqs[r].out = "200"}) = 2

(* C3: once every operation has finished, an identity's balance is the sum  *)
(* of its successful credits minus the sum of its successful debits.        *)
C3_NoLostUpdate ==
  AllDone =>
    \A e \in Ent : Balance(e) = SumCredited(e, Len(reqs)) - SumDebited(e, Len(reqs))

C3_Witness ==
  /\ AllDone
  /\ \E r \in Credits : reqs[r].out = "200" /\ EntityOf(r) = "A"
  /\ Cardinality({r \in Claims : reqs[r].out = "200" /\ EntityOf(r) = "A"}) = 2
  /\ \E r \in Claims : reqs[r].out = "200" /\ reqs[r].conc

(* C4: when a claim's transfer has been broadcast and the claim waits for   *)
(* the receipt, the ledger already shows the balance less the amount.       *)
C4_ReservedBeforeTransfer ==
  \A r \in Claims :
    reqs[r].pc = "wait" => Balance(EntityOf(r)) = reqs[r].pre - reqs[r].amt

(* C5: a claim whose wait for the receipt timed out leaves the ledger at    *)
(* the pre-claim balance less the amount.                                   *)
C5_TimeoutLeavesDebited ==
  \A r \in Claims :
    (IsDone(r) /\ reqs[r].receipt = "timeout") =>
      reqs[r].post = reqs[r].pre - reqs[r].amt

(* C6: after a claim ended in a confirmation timeout, the next claim for    *)
(* the same identity and amount, with no credit in between, broadcasts no   *)
(* second transfer.                                                         *)
C6_RetryNoDoubleTransfer ==
  \A r1, r2 \in Claims :
    ( /\ r2 = r1 + 1
      /\ ~reqs[r2].conc
      /\ EntityOf(r1) = EntityOf(r2) /\ reqs[r1].amt = reqs[r2].amt
      /\ reqs[r1].amt > 0
      /\ reqs[r1].receipt = "timeout" )
    => ~Broadcast(r2)

(* C7: no two claims of one identity have a transfer that is broadcast and  *)
(* unconfirmed at the same time.                                            *)
C7_ClaimExclusion ==
  \A r1, r2 \in Claims :
    ( /\ r1 # r2 /\ EntityOf(r1) = EntityOf(r2)
      /\ reqs[r1].amt > 0 /\ reqs[r2].amt > 0
      /\ Broadcast(r1) /\ Broadcast(r2) )
    => ~(chain[reqs[r1].tx].st = "pending" /\ chain[reqs[r2].tx].st = "pending")

(* C8: a claim that passed the balance and liquidity checks and whose       *)
(* signing or sending failed ends with the error of that failure, has       *)
(* broadcast nothing, and leaves the balance at its pre-claim value.        *)
C8_BroadcastFailureRestores ==
  \A r \in Claims :
    (IsDone(r) /\ reqs[r].cause = "broadcast") =>
      /\ reqs[r].out = "500_exception"
      /\ ~Broadcast(r)
      /\ reqs[r].post = reqs[r].pre

C8_Witness ==
  \E r \in Claims :
    /\ IsDone(r) /\ reqs[r].cause = "broadcast"
    /\ reqs[r].pre = Milli(1000) /\ reqs[r].amt = Milli(600)
    /\ Balance("A") = Milli(1000)

(* C9: a claim for which the chain reports a treasury balance below the     *)
(* amount plus 0.002 is rejected as treasury-low, broadcasts nothing, and   *)
(* leaves the balance at its pre-claim value.                               *)
C9_LiquidityShortfall ==
  \A r \in Claims :
    (reqs[r].liq # 0 /\ reqs[r].liq < reqs[r].amt + 20000) =>
      /\ IsDone(r) /\ reqs[r].out = "400_treasury_low"
      /\ ~Broadcast(r)
      /\ reqs[r].post = reqs[r].pre

C9_Witness ==
  \E r \in Claims :
    /\ reqs[r].liq = Milli(602) - 1 /\ reqs[r].amt = Milli(600)
    /\ reqs[r].pre = Milli(1000)
    /\ IsDone(r) /\ Balance("A") = Milli(1000)

(* C10: a claim whose receipt reports status 0 ends with "TX reverted" and  *)
(* leaves the balance at its pre-claim value.                               *)
C10_RevertRestores ==
  \A r \in Claims :
    (IsDone(r) /\ reqs[r].receipt = "status0") =>
      /\ reqs[r].out = "500_tx_reverted"
      /\ reqs[r].post = reqs[r].pre

C10_Witness ==
  \E r \in Claims :
    /\ IsDone(r) /\ reqs[r].receipt = "status0"
    /\ chain[reqs[r].tx].st = "failed"
    /\ reqs[r].pre = Milli(1000) /\ Balance("A") = Milli(1000)

(* The ledger entries of led other than the one of the entity w names are   *)
(* the same in led2, and led2 has the same keys in the same order.          *)
OthersUnchanged(led, led2, w) ==
  /\ Len(led2) = Len(led)
  /\ \A i \in 1..Len(led) :
       /\ led2[i].key = led[i].key
       /\ led[i].key[1] # w[1] => led2[i].val = led[i].val

BalanceIn(led, w) ==
  IF \E i \in 1..Len(led) : led[i].key[1] = w[1] /\ ~led[i].key[3]
  THEN led[CHOOSE i \in 1..Len(led) : led[i].key[1] = w[1] /\ ~led[i].key[3]].val
  ELSE 0

(* The claim r got as far as the balance check: the service was ready and   *)
(* the address valid.                                                       *)
ReachedBalanceCheck(r) ==
  /\ IsDone(r) /\ web3_ready
  /\ reqs[r].w[1] \in Ent /\ reqs[r].w[2] # "bad"

(* C12 (rejection and side effects): a claim for more than the identity's   *)
(* balance is rejected with the "Need ..., have ..." error, broadcasts      *)
(* nothing and leaves the whole ledger as it was.                           *)
C12_SideEffectFree ==
  \A r \in Claims :
    (ReachedBalanceCheck(r) /\ reqs[r].amt > BalanceIn(reqs[r].led0, reqs[r].w)) =>
      /\ reqs[r].out = "400_need"
      /\ ~Broadcast(r)
      /\ reqs[r].led1 = reqs[r].led0

(* C12: such a claim is rejected without side effects and the error reports *)
(* the exact requested amount and the exact current balance.                *)
C12_InsufficientBalanceExact ==
  \A r \in Claims :
    (ReachedBalanceCheck(r) /\ reqs[r].amt > BalanceIn(reqs[r].led0, reqs[r].w)) =>
      /\ reqs[r].out = "400_need"
      /\ ~Broadcast(r)
      /\ reqs[r].led1 = reqs[r].led0
      /\ reqs[r].shown[1] * 10 = reqs[r].amt
      /\ reqs[r].shown[2] * 10 = BalanceIn(reqs[r].led0, reqs[r].w)

(* C13: no two ledger keys are equal case-insensitively, and a credit whose *)
(* wallet matches an existing key case-insensitively adds to that entry and *)
(* creates none.                                                            *)
C13_OneEntryPerEntity ==
  /\ \A i, j \in 1..Len(user_credits) :
       (user_credits[i].key[1] = user_credits[j].key[1]
          /\ user_credits[i].key[3] = user_credits[j].key[3]) => i = j
  /\ \A r \in Credits :
       ( /\ IsDone(r) /\ reqs[r].out = "200"
         /\ \E i \in 1..Len(reqs[r].led0) :
               /\ reqs[r].led0[i].key[1] = reqs[r].w[1]
               /\ reqs[r].led0[i].key[3] = reqs[r].w[3] )
       => /\ Len(reqs[r].led1) = Len(reqs[r].led0)
          /\ BalanceIn(reqs[r].led1, reqs[r].w)
               = BalanceIn(reqs[r].led0, reqs[r].w) + reqs[r].amt

C13_Witness ==
  \E r \in Credits :
    /\ IsDone(r) /\ reqs[r].out = "200" /\ reqs[r].w = <<"A", "lc", FALSE>>
    /\ Len(reqs[r].led0) = 1 /\ reqs[r].led0[1].key = <<"A", "ck", FALSE>>
    /\ user_credits = <<[key |-> <<"A", "ck", FALSE>>, val |-> Milli(2000)]>>

Queries == {r \in Reqs : reqs[r].kind = "query"}

(* C14: a successful credit for a real wallet returns, as                   *)
(* user_total_credits, the entity's ledger balance after the credit,        *)
(* whatever the casing of the wallet.                                       *)
C14_CreditReturnsTotal ==
  \A r \in Credits :
    (IsDone(r) /\ reqs[r].out = "200" /\ reqs[r].w # NotConnected) =>
      reqs[r].ret = BalanceIn(reqs[r].led1, reqs[r].w)

(* C15: a credits query for a well-formed address answers 200 with the      *)
(* balance of the entity matching it case-insensitively, 0 when there is    *)
(* none, and can_claim = (balance > 0), whether or not web3 is ready.       *)
C15_QueryAvailable ==
  \A r \in Queries :
    (IsDone(r) /\ reqs[r].w[1] \in Ent) =>
      /\ reqs[r].out = "200"
      /\ reqs[r].ret = BalanceIn(reqs[r].led0, reqs[r].w)
      /\ reqs[r].can = (reqs[r].ret > 0)
      /\ reqs[r].led1 = reqs[r].led0

C15_Witness ==
  /\ ~web3_ready
  /\ \E r \in Queries : IsDone(r) /\ reqs[r].out = "200" /\ reqs[r].ret = 0
                        /\ ~reqs[r].can
  /\ \E r \in Queries : /\ IsDone(r) /\ reqs[r].w = <<"A", "uc", TRUE>>
                        /\ reqs[r].ret = Milli(1000) /\ reqs[r].can
                        /\ reqs[r].led0[1].key = <<"A", "lc", FALSE>>

(* C16: the error a claim returns for a confirmation timeout is of another  *)
(* kind than the error returned for a broadcast failure or a revert.        *)
C16_TimeoutDistinct ==
  \A r1, r2 \in Claims :
    ( /\ IsDone(r1) /\ reqs[r1].receipt = "timeout"
      /\ IsDone(r2)
      /\ (reqs[r2].cause = "broadcast" \/ reqs[r2].receipt = "status0") )
    => reqs[r1].out # reqs[r2].out

(* C17: a claim with amountETH <= 0 broadcasts no transfer and changes no   *)
(* ledger balance.                                                          *)
C17_PositiveAmountRequired ==
  \A r \in Claims :
    reqs[r].amt <= 0 =>
      /\ ~Broadcast(r)
      /\ (IsDone(r) => reqs[r].led1 = reqs[r].led0)

(* The wallets of the successful first credits of the first n requests, in  *)
(* the order of the credits: one per case-insensitively distinct wallet.    *)
RECURSIVE FirstSeen(_)
FirstSeen(n) ==
  IF n = 0 THEN <<>>
  ELSE LET q == reqs[n]
           before == FirstSeen(n - 1)
       IN  IF /\ q.kind = "credit" /\ q.pc = "done" /\ q.out = "200"
              /\ q.w # NotConnected
              /\ \A i \in 1..Len(before) :
                   ~(before[i][1] = q.w[1] /\ before[i][3] = q.w[3])
           THEN Append(before, q.w)
           ELSE before

(* C18: the keys of the ledger are, in every state, the wallets of the      *)
(* first successful credit of each entity, in their first-seen casing: a    *)
(* key never changes and never goes away, also at balance 0, and only a     *)
(* credit adds one.                                                         *)
C18_KeysStable ==
  [i \in 1..Len(user_credits) |-> user_credits[i].key] = FirstSeen(Len(reqs))

C18_Witness ==
  /\ \E i \in 1..Len(user_credits) :
       user_credits[i].key = <<"A", "ck", FALSE>> /\ user_credits[i].val = 0
  /\ \E r \in Claims : IsDone(r) /\ reqs[r].out = "200"
                       /\ reqs[r].w = <<"A", "uc", TRUE>>
  /\ AllDone

(* C19: every key of the ledger is a well-formed address, and a credit      *)
(* whose wallet is malformed is rejected and leaves the ledger as it was.   *)
C19_KeysWellFormed ==
  /\ \A i \in 1..Len(user_credits) :
       user_credits[i].key[1] \in Ent /\ ~user_credits[i].key[3]
  /\ \A r \in Credits :
       ( /\ IsDone(r) /\ reqs[r].w # NotConnected
         /\ ~(reqs[r].w[1] \in Ent /\ ~reqs[r].w[3]) )
       => (reqs[r].out # "200" /\ reqs[r].led1 = reqs[r].led0)

RECURSIVE SumMined(_, _)
SumMined(e, n) ==
  IF n = 0 THEN 0
  ELSE SumMined(e, n - 1) +
       (IF chain[n].st = "mined" /\ chain[n].to[1] = e THEN chain[n].amt ELSE 0)

(* C20: the transfers to an identity that succeeded on chain never add up   *)
(* to more than what was credited to it.                                    *)
C20_NoOverpayment ==
  \A e \in Ent : SumMined(e, Len(chain)) <= SumCredited(e, Len(reqs))

====
